---- MODULE Spec2Model ----
(***************************************************************************)
(* Model of the electricity price MCP server (src/src/server.py).         *)
(*                                                                         *)
(* A Python str is a sequence of Unicode code points (naturals), so that   *)
(* equality, strip(), the `in` substring test, the date regular           *)
(* expressions and difflib's similarity are computed, not assumed.  The   *)
(* text of each literal is given in the comment next to it.               *)
(***************************************************************************)
EXTENDS Integers, Sequences, FiniteSets, TLC

VARIABLES
  pool,        \* self.pool: 0 is None, otherwise the id of a created pool
  created,     \* ids of the pools aiomysql.create_pool has returned
  closed,      \* ids of the pools closed by run()'s finally block
  running,     \* TRUE until run() leaves app.run
  task,        \* per call_tool invocation: its position and locals
  regionIn,    \* argument of normalize_region_name
  regionOut,   \* its result, or Pending
  dateIn,      \* argument of normalize_date
  dateOut,     \* its result, or Pending
  rowsIn,      \* result list handed to call_tool's rendering
  rendered     \* the text replies built from it: none yet, or one

vars ==
  <<pool, created, closed, running, task,
    regionIn, regionOut, dateIn, dateOut, rowsIn, rendered>>

serverVars == <<pool, created, closed, running, task>>
regionVars == <<regionIn, regionOut>>
dateVars == <<dateIn, dateOut>>
renderVars == <<rowsIn, rendered>>

(***************************************************************************)
(* Python values                                                           *)
(***************************************************************************)

\* Python's None where a str is expected; no str holds a negative code point.
None == <<-1>>

\* A function call that has not returned yet.
Pending == <<-2>>

\* `not x` for x a str or None.
Falsy(x) == x = None \/ x = <<>>

\* Code points for which str.isspace() holds; str.strip() removes them.
Whitespace ==
  {9, 10, 11, 12, 13, 28, 29, 30, 31, 32, 133, 160, 5760, 8232, 8233, 8239,
   8287, 12288} \cup (8192..8202)

RECURSIVE lstrip(_)
lstrip(s) ==
  IF s # <<>> /\ Head(s) \in Whitespace THEN lstrip(Tail(s)) ELSE s

RECURSIVE rstrip(_)
rstrip(s) ==
  IF s # <<>> /\ s[Len(s)] \in Whitespace
    THEN rstrip(SubSeq(s, 1, Len(s) - 1))
    ELSE s

\* str.strip()
strip(s) == rstrip(lstrip(s))

\* Python's `sub in s` for two str.
Contains(sub, s) ==
  \E i \in 0..(Len(s) - Len(sub)) : SubSeq(s, i + 1, i + Len(sub)) = sub

\* Python's `s < t` for two str: lexicographic by code point.
RECURSIVE StrLess(_, _)
StrLess(s, t) ==
  IF t = <<>> THEN FALSE
  ELSE IF s = <<>> THEN TRUE
  ELSE IF Head(s) # Head(t) THEN Head(s) < Head(t)
  ELSE StrLess(Tail(s), Tail(t))

(***************************************************************************)
(* self.region_mapping, in insertion order (dict iteration order)         *)
(***************************************************************************)

region_mapping ==
  <<
    (* 珠三角: 广东省珠三角五市 *)
    <<<<29664, 19977, 35282>>,
      <<24191, 19996, 30465, 29664, 19977, 35282, 20116, 24066>>>>,
    (* 惠州: 广东省惠州市 *)
    <<<<24800, 24030>>,
      <<24191, 19996, 30465, 24800, 24030, 24066>>>>,
    (* 东西两翼: 广东省东西两翼地区 *)
    <<<<19996, 35199, 20004, 32764>>,
      <<24191, 19996, 30465, 19996, 35199, 20004, 32764, 22320, 21306>>>>,
    (* 粤北: 广东省粤北山区 *)
    <<<<31908, 21271>>,
      <<24191, 19996, 30465, 31908, 21271, 23665, 21306>>>>,
    (* 江门: 广东省江门市 *)
    <<<<27743, 38376>>,
      <<24191, 19996, 30465, 27743, 38376, 24066>>>>,
    (* 深圳: 广东省深圳市 *)
    <<<<28145, 22323>>,
      <<24191, 19996, 30465, 28145, 22323, 24066>>>>,
    (* 江苏: 江苏省 *)
    <<<<27743, 33487>>,
      <<27743, 33487, 30465>>>>,
    (* 浙江: 浙江省 *)
    <<<<27993, 27743>>,
      <<27993, 27743, 30465>>>>,
    (* 上海: 上海市 *)
    <<<<19978, 28023>>,
      <<19978, 28023, 24066>>>>,
    (* 安徽: 安徽省 *)
    <<<<23433, 24509>>,
      <<23433, 24509, 30465>>>>,
    (* 北京: 北京市 *)
    <<<<21271, 20140>>,
      <<21271, 20140, 24066>>>>,
    (* 重庆: 重庆市 *)
    <<<<37325, 24198>>,
      <<37325, 24198, 24066>>>>,
    (* 福建: 福建省 *)
    <<<<31119, 24314>>,
      <<31119, 24314, 30465>>>>,
    (* 甘肃: 甘肃省 *)
    <<<<29976, 32899>>,
      <<29976, 32899, 30465>>>>,
    (* 广西: 广西壮族自治区 *)
    <<<<24191, 35199>>,
      <<24191, 35199, 22766, 26063, 33258, 27835, 21306>>>>,
    (* 贵州: 贵州省 *)
    <<<<36149, 24030>>,
      <<36149, 24030, 30465>>>>,
    (* 河北北部: 河北省北部 *)
    <<<<27827, 21271, 21271, 37096>>,
      <<27827, 21271, 30465, 21271, 37096>>>>,
    (* 河北南部: 河北省南部 *)
    <<<<27827, 21271, 21335, 37096>>,
      <<27827, 21271, 30465, 21335, 37096>>>>,
    (* 湖北: 湖北省 *)
    <<<<28246, 21271>>,
      <<28246, 21271, 30465>>>>,
    (* 黑龙江: 黑龙江省 *)
    <<<<40657, 40857, 27743>>,
      <<40657, 40857, 27743, 30465>>>>,
    (* 河南: 河南省 *)
    <<<<27827, 21335>>,
      <<27827, 21335, 30465>>>>,
    (* 海南: 海南省 *)
    <<<<28023, 21335>>,
      <<28023, 21335, 30465>>>>,
    (* 湖南: 湖南省 *)
    <<<<28246, 21335>>,
      <<28246, 21335, 30465>>>>,
    (* 吉林: 吉林省 *)
    <<<<21513, 26519>>,
      <<21513, 26519, 30465>>>>,
    (* 江西: 江西省 *)
    <<<<27743, 35199>>,
      <<27743, 35199, 30465>>>>,
    (* 辽宁: 辽宁省 *)
    <<<<36797, 23425>>,
      <<36797, 23425, 30465>>>>,
    (* 内蒙古东部: 内蒙古东部地区 *)
    <<<<20869, 33945, 21476, 19996, 37096>>,
      <<20869, 33945, 21476, 19996, 37096, 22320, 21306>>>>,
    (* 宁夏: 宁夏回族自治区 *)
    <<<<23425, 22799>>,
      <<23425, 22799, 22238, 26063, 33258, 27835, 21306>>>>,
    (* 青海: 青海省 *)
    <<<<38738, 28023>>,
      <<38738, 28023, 30465>>>>,
    (* 四川: 四川省 *)
    <<<<22235, 24029>>,
      <<22235, 24029, 30465>>>>,
    (* 山东: 山东省 *)
    <<<<23665, 19996>>,
      <<23665, 19996, 30465>>>>,
    (* 榆林: 陕西省榆林地区 *)
    <<<<27014, 26519>>,
      <<38485, 35199, 30465, 27014, 26519, 22320, 21306>>>>,
    (* 山西: 山西省 *)
    <<<<23665, 35199>>,
      <<23665, 35199, 30465>>>>,
    (* 陕西: 陕西省 *)
    <<<<38485, 35199>>,
      <<38485, 35199, 30465>>>>,
    (* 天津: 天津市 *)
    <<<<22825, 27941>>,
      <<22825, 27941, 24066>>>>,
    (* 新疆: 新疆维吾尔自治区 *)
    <<<<26032, 30086>>,
      <<26032, 30086, 32500, 21566, 23572, 33258, 27835, 21306>>>>,
    (* 云南: 云南省 *)
    <<<<20113, 21335>>,
      <<20113, 21335, 30465>>>>
  >>

\* list(mapping.keys())
Keys(mapping) == [i \in 1..Len(mapping) |-> mapping[i][1]]

\* list(mapping.values())
Values(mapping) == [i \in 1..Len(mapping) |-> mapping[i][2]]

Aliases == Keys(region_mapping)
Canonicals == Values(region_mapping)

\* A lookup that hands back the key it was asked for instead of its value.
MappingGetKey(mapping, key) ==
  IF \E i \in 1..Len(mapping) : mapping[i][1] = key THEN key ELSE None

\* mapping.get(key): the value of the entry with that key, else None.
\* A dict holds one entry per key; the literal repeats no key.
MappingGet(mapping, key) ==
  IF \E i \in 1..Len(mapping) : mapping[i][1] = key
    THEN mapping[CHOOSE i \in 1..Len(mapping) : mapping[i][1] = key][2]
    ELSE None

(***************************************************************************)
(* difflib.get_close_matches, as get_similar_regions calls it             *)
(***************************************************************************)

\* Length of the common run of a from offset i and b from offset j (0-based),
\* kept inside a[..ahi) and b[..bhi).
RECURSIVE RunLen(_, _, _, _, _, _)
RunLen(a, b, i, j, ahi, bhi) ==
  IF i < ahi /\ j < bhi /\ a[i + 1] = b[j + 1]
    THEN 1 + RunLen(a, b, i + 1, j + 1, ahi, bhi)
    ELSE 0

\* SequenceMatcher.find_longest_match without junk (isjunk is None and autojunk
\* needs 200 elements): the longest block, earliest in a, then earliest in b.
FindLongestMatch(a, b, alo, ahi, blo, bhi) ==
  LET starts == (alo..(ahi - 1)) \X (blo..(bhi - 1))
      size(p) == RunLen(a, b, p[1], p[2], ahi, bhi)
      best == CHOOSE p \in starts :
                \A q \in starts :
                  \/ size(q) < size(p)
                  \/ /\ size(q) = size(p)
                     /\ \/ p[1] < q[1]
                        \/ p[1] = q[1] /\ p[2] <= q[2]
  IN IF starts = {} THEN <<alo, blo, 0>> ELSE <<best[1], best[2], size(best)>>

\* Sum of the sizes of SequenceMatcher.get_matching_blocks(): the longest block,
\* then the same to its left and to its right.
RECURSIVE Matches(_, _, _, _, _, _)
Matches(a, b, alo, ahi, blo, bhi) ==
  LET m == FindLongestMatch(a, b, alo, ahi, blo, bhi)
  IN IF m[3] = 0 THEN 0
     ELSE m[3] + Matches(a, b, alo, m[1], blo, m[2])
               + Matches(a, b, m[1] + m[3], ahi, m[2] + m[3], bhi)

\* Number of positions of b whose element still has an unused occurrence in a:
\* the multiset intersection SequenceMatcher.quick_ratio counts.
CommonElements(a, b) ==
  LET count(s, c) == Cardinality({i \in 1..Len(s) : s[i] = c})
      elems == {b[j] : j \in 1..Len(b)}
      min(x, y) == IF x < y THEN x ELSE y
      RECURSIVE sum(_)
      sum(S) == IF S = {} THEN 0
                ELSE LET c == CHOOSE c \in S : TRUE
                     IN min(count(a, c), count(b, c)) + sum(S \ {c})
  IN sum(elems)

\* 2.0 * matches / length >= cutoff for cutoff 0.4 (_calculate_ratio; length is
\* positive because the word is not empty).  The quotient is correctly rounded,
\* as is the literal 0.4, so the comparison is that of the rationals.
AtLeastCutoff(matches, length) == 5 * matches >= length

\* (score, x) of get_close_matches for the possibilities passing the three
\* ratio tests; the score 2.0*m/t is kept as <<m, t>>.
Scored(word, possibilities) ==
  LET pass(x) ==
        LET la == Len(x)
            lb == Len(word)
        IN /\ AtLeastCutoff(IF la < lb THEN la ELSE lb, la + lb)
           /\ AtLeastCutoff(CommonElements(x, word), la + lb)
           /\ AtLeastCutoff(Matches(x, word, 0, la, 0, lb), la + lb)
  IN {<<<<Matches(possibilities[i], word, 0, Len(possibilities[i]), 0, Len(word)),
          Len(possibilities[i]) + Len(word)>>, possibilities[i]>> :
        i \in {k \in 1..Len(possibilities) : pass(possibilities[k])}}

\* Tuple comparison (score, x) < (score', x'): by score, then by str.
TupleLess(p, q) ==
  LET l == p[1][1] * q[1][2]
      r == q[1][1] * p[1][2]
  IN l < r \/ (l = r /\ StrLess(p[2], q[2]))

\* heapq.nlargest(n, result): the n largest tuples, largest first.
RECURSIVE NLargest(_, _)
NLargest(n, result) ==
  IF n = 0 \/ result = {} THEN <<>>
  ELSE LET top == CHOOSE p \in result : \A q \in result \ {p} : TupleLess(q, p)
       IN <<top[2]>> \o NLargest(n - 1, result \ {top})

get_close_matches(word, possibilities, n) ==
  NLargest(n, Scored(word, possibilities))

\* get_similar_regions' default num_matches
num_matches == 3

\* get_similar_regions, with self.region_mapping as a parameter
SimilarRegionsIn(mapping, region_name) ==
  IF Falsy(region_name) THEN <<>>
  ELSE get_close_matches(region_name, Keys(mapping) \o Values(mapping),
                         num_matches)

get_similar_regions(region_name) == SimilarRegionsIn(region_mapping, region_name)

(***************************************************************************)
(* normalize_region_name: <<normalized name or None, similar regions>>    *)
(***************************************************************************)

\* The entries whose key satisfies `key in region_name or region_name in key`.
PartialMatches(mapping, name) ==
  {i \in 1..Len(mapping) :
     Contains(mapping[i][1], name) \/ Contains(name, mapping[i][1])}

\* The last element instead of the first.
LastOf(S) == CHOOSE i \in S : \A j \in S : i >= j

\* The element a `for` loop over positions reaches first.
FirstOf(S) == CHOOSE i \in S : \A j \in S : i <= j

\* normalize_region_name, with self.region_mapping as a parameter
NormalizeRegionIn(mapping, region_name) ==
  IF Falsy(region_name) THEN <<None, <<>>>>
  ELSE
    LET name == strip(region_name)
    IN IF \E i \in 1..Len(mapping) : name = mapping[i][2]
         THEN <<name, <<>>>>
       ELSE IF ~Falsy(MappingGet(mapping, name))
         THEN <<MappingGet(mapping, name), <<>>>>
       ELSE IF PartialMatches(mapping, name) # {}
         THEN <<mapping[FirstOf(PartialMatches(mapping, name))][2], <<>>>>
       ELSE <<None, SimilarRegionsIn(mapping, name)>>

normalize_region_name(region_name) ==
  NormalizeRegionIn(region_mapping, region_name)

(***************************************************************************)
(* normalize_date: <<normalized date or None, is valid>>                  *)
(***************************************************************************)

\* Code points the regular expression's \d accepts and int() reads: the ASCII
\* digits and, of the other Unicode decimal digits, the fullwidth ones.
AsciiDigits == 48..57
FullwidthDigits == 65296..65305
Digits == AsciiDigits \cup FullwidthDigits

DigitValue(c) == IF c \in AsciiDigits THEN c - 48 ELSE c - 65296

\* int(s) for a str of one or two digits
IntOf(s) ==
  IF Len(s) = 1 THEN DigitValue(s[1])
  ELSE 10 * DigitValue(s[1]) + DigitValue(s[2])

\* The three patterns, as <<separator after the year, text after the month>>:
\*   (\d{4})年(\d{1,2})月    (\d{4})-(\d{1,2})    (\d{4})/(\d{1,2})
patterns ==
  << <<24180, <<26376>>>>,   (* 年 ... 月 *)
     <<45, <<>>>>,           (* - *)
     <<47, <<>>>> >>         (* / *)

\* re.match(pattern, s).groups(), or <<>> when there is no match.  re.match
\* anchors at the start only, and \d{1,2} takes two digits when the rest of
\* the pattern still matches after them, else one.
ReMatch(pattern, s) ==
  LET sep == pattern[1]
      rest == pattern[2]
      digitAt(i) == i <= Len(s) /\ s[i] \in Digits
      restAt(i) == /\ i + Len(rest) - 1 <= Len(s)
                   /\ SubSeq(s, i, i + Len(rest) - 1) = rest
      year == SubSeq(s, 1, 4)
  IN IF ~(/\ \A i \in 1..4 : digitAt(i)
          /\ Len(s) >= 5
          /\ s[5] = sep)
       THEN <<>>
     ELSE IF digitAt(6) /\ digitAt(7) /\ restAt(8)
       THEN <<year, SubSeq(s, 6, 7)>>
     ELSE IF digitAt(6) /\ restAt(7)
       THEN <<year, SubSeq(s, 6, 6)>>
     ELSE <<>>

\* The month without its zero padding: f"{year}年{month_int}月"
FormatDateUnpadded(year, month_int) ==
  year \o <<24180>>
       \o (IF month_int < 10 THEN <<48 + month_int>>
           ELSE <<48 + (month_int \div 10), 48 + (month_int % 10)>>)
       \o <<26376>>

\* f"{year}年{month_int:02d}月"
FormatDate(year, month_int) ==
  year \o <<24180>>
       \o (IF month_int < 10 THEN <<48, 48 + month_int>>
           ELSE <<48 + (month_int \div 10), 48 + (month_int % 10)>>)
       \o <<26376>>

normalize_date(date_str) ==
  IF Falsy(date_str) THEN <<None, FALSE>>
  ELSE
    LET s == strip(date_str)
        matching == {k \in 1..Len(patterns) : ReMatch(patterns[k], s) # <<>>}
    IN IF matching = {} THEN <<None, FALSE>>
       ELSE LET groups == ReMatch(patterns[FirstOf(matching)], s)
                month_int == IntOf(groups[2])
            IN IF 1 <= month_int /\ month_int <= 12
                 THEN <<FormatDate(groups[1], month_int), TRUE>>
                 ELSE <<None, FALSE>>

(***************************************************************************)
(* call_tool's rendering of a result list                                  *)
(***************************************************************************)

\* A price column holds NULL (None) or a Decimal; a Decimal is kept as its
\* number of ten-thousandths (0.6825 is 6825).
Null == -1

\* Decimal digits of a natural, as a str.
RECURSIVE DigitsOf(_)
DigitsOf(n) ==
  IF n < 10 THEN <<48 + n>> ELSE DigitsOf(n \div 10) \o <<48 + (n % 10)>>

\* f"{float(v):.4f}": the integer part, a point, four decimals.
Format4f(v) ==
  LET frac == v % 10000
  IN DigitsOf(v \div 10000) \o <<46>>
       \o <<48 + (frac \div 1000), 48 + ((frac \div 100) % 10),
            48 + ((frac \div 10) % 10), 48 + (frac % 10)>>

\* `x if row[...] else "-"`: the condition is the value's truth, and both None
\* and a Decimal equal to zero are false.
PriceCell(v) ==
  IF v # Null /\ v # 0 THEN Format4f(v) ELSE <<45>>

\* electricity_type1_desc, then "/" and electricity_type2_desc when that is
\* neither None nor empty.
ElectricityType(row) ==
  IF Falsy(row.electricity_type2_desc)
    THEN row.electricity_type1_desc
    ELSE row.electricity_type1_desc \o <<47>> \o row.electricity_type2_desc

\* One table row: the cells between the bars.
TableRow(row) ==
  <<row.region_name, row.price_date, ElectricityType(row),
    row.voltage_level_desc,
    PriceCell(row.peak_price), PriceCell(row.sharp_peak_price),
    PriceCell(row.valley_price), PriceCell(row.normal_price),
    PriceCell(row.deep_valley_price)>>

\* The text reply for a result list without a hint.
RenderResults(results) ==
  IF results = <<>>
    THEN [kind |-> "no_data"]
    ELSE [kind |-> "table",
          count |-> Len(results),
          rows |-> [i \in 1..Len(results) |-> TableRow(results[i])],
          explanation |-> TRUE]

(***************************************************************************)
(* query_electricity_prices and call_tool                                  *)
(***************************************************************************)

\* Number of call_tool invocations the transport delivers.
NumCalls == 2

Calls == 1..NumCalls

\* Exceptions of the storage collaborator, by the await that raises them.
PoolError == "create_pool failed"
AcquireError == "acquire failed"
QueryError == "execute failed"

\* A call_tool invocation that has not been delivered yet.
NotCalled ==
  [pc |-> "idle", name |-> "", region_name |-> None, price_date |-> None,
   pool_calls |-> 0, executes |-> 0, query |-> <<>>, params |-> <<>>,
   exc |-> "", reply |-> <<>>, raised |-> FALSE]

\* `return [TextContent(type="text", text=...)]`
Return(tk, text) == [tk EXCEPT !.pc = "done", !.reply = Append(@, text)]

\* No handler: the exception leaves call_tool and no reply is built.
Propagate(tk, e) == [tk EXCEPT !.pc = "done", !.raised = TRUE]

\* `except Exception as e:` around the whole body of call_tool: the reply is
\* the "query failed" text with str(e).
ExceptException(tk, e) == Return(tk, [kind |-> "error", cause |-> e])

\* An await inside the try block raises e.
Raise(tk, e) == ExceptException([tk EXCEPT !.exc = e], e)

\* The arguments of the query_electricity_prices calls, as
\* <<region_name, price_date>>; None also stands for a missing key
\* (arguments.get returns None).
Shenzhen == <<28145, 22323>>                      (* 深圳 *)
Guangzhou == <<24191, 24030>>                     (* 广州: close to 惠州, 贵州 *)
Mars == <<28779, 26143>>                          (* 火星: close to nothing *)
December == <<50, 48, 50, 52, 45, 49, 50>>        (* 2024-12 *)
Month13 == <<50, 48, 50, 52, 45, 49, 51>>         (* 2024-13 *)

QueryArgs ==
  { <<None, None>>, <<<<>>, <<>>>>, <<None, <<>>>>, <<<<>>, None>>,
    <<Guangzhou, None>>, <<Mars, None>>, <<None, Month13>>,
    <<Guangzhou, Month13>>, <<Shenzhen, Month13>>, <<Guangzhou, December>>,
    <<Shenzhen, None>>, <<None, December>>, <<Shenzhen, December>>,
    <<<<32>>, None>> }

\* normalize_region_name and normalize_date are pure: their results for the
\* arguments above, computed once.
NormalizedRegion ==
  [r \in {a[1] : a \in QueryArgs} |-> normalize_region_name(r)]

NormalizedDate ==
  [d \in {a[2] : a \in QueryArgs} |-> normalize_date(d)]

\* The hints query_electricity_prices collects, in order.
Hints(region_name, price_date) ==
  LET region == NormalizedRegion[region_name]
      date == NormalizedDate[price_date]
      region_hint ==
        IF Falsy(region[1]) /\ ~Falsy(region_name)
          THEN IF region[2] # <<>>
                 THEN <<[hint |-> "region_similar", region_name |-> region_name,
                         similar |-> region[2]]>>
                 ELSE <<[hint |-> "region_not_found", region_name |-> region_name]>>
          ELSE <<>>
      date_hint ==
        IF ~Falsy(price_date) /\ ~date[2]
          THEN <<[hint |-> "date_format"]>>
          ELSE <<>>
  IN region_hint \o date_hint

\* `elif normalized_date:` in place of the second `if`.
QueryColumnsElif(normalized_region, normalized_date) ==
  IF ~Falsy(normalized_region) THEN <<"region_name">>
  ELSE IF ~Falsy(normalized_date) THEN <<"price_date">>
  ELSE <<>>

\* The WHERE clauses after "1=1" and their parameters.
QueryColumns(normalized_region, normalized_date) ==
  (IF ~Falsy(normalized_region) THEN <<"region_name">> ELSE <<>>)
    \o (IF ~Falsy(normalized_date) THEN <<"price_date">> ELSE <<>>)

QueryParams(normalized_region, normalized_date) ==
  (IF ~Falsy(normalized_region) THEN <<normalized_region>> ELSE <<>>)
    \o (IF ~Falsy(normalized_date) THEN <<normalized_date>> ELSE <<>>)

\* query_electricity_prices from the return of ensure_db_pool to its next
\* await (pool.acquire) or to its return of a hint, which call_tool replies.
AfterEnsurePool(tk) ==
  LET normalized_region == NormalizedRegion[tk.region_name][1]
      normalized_date == NormalizedDate[tk.price_date][1]
      hints == Hints(tk.region_name, tk.price_date)
  IN IF Falsy(tk.region_name) /\ Falsy(tk.price_date)
       THEN Return(tk, [kind |-> "hint", lines |-> <<[hint |-> "no_filter"]>>])
     ELSE IF hints # <<>>
       THEN Return(tk, [kind |-> "hint", lines |-> hints])
     ELSE [tk EXCEPT !.pc = "acquire",
                     !.query = QueryColumns(normalized_region, normalized_date),
                     !.params = QueryParams(normalized_region, normalized_date)]

\* ensure_db_pool up to its await: create_pool is started only when self.pool
\* is None at that moment.
ensure_db_pool(tk, self_pool) ==
  IF self_pool = 0
    THEN [tk EXCEPT !.pc = "create_pool", !.pool_calls = @ + 1]
    ELSE AfterEnsurePool(tk)

\* sorted(self.region_mapping.items()): by alias, then by full name.
RECURSIVE SortedItems(_)
SortedItems(S) ==
  IF S = {} THEN <<>>
  ELSE LET least == CHOOSE i \in S :
                      \A j \in S \ {i} :
                        StrLess(region_mapping[i][1], region_mapping[j][1])
       IN <<region_mapping[least]>> \o SortedItems(S \ {least})

list_available_regions ==
  [kind |-> "regions", rows |-> SortedItems(1..Len(region_mapping))]

\* Tool names a caller may send.
ToolNames == {"query_electricity_prices", "list_available_regions", "get_weather"}

\* Only query_electricity_prices reads its arguments.
ArgsOf(name) ==
  IF name = "query_electricity_prices" THEN QueryArgs ELSE {<<None, None>>}

\* Rows of electricity_prices the store may return.
SampleRow(peak, valley) ==
  [region_name |-> <<24191, 19996, 30465, 28145, 22323, 24066>>,
   price_date |-> <<50, 48, 50, 52, 24180, 49, 50, 26376>>,
   electricity_type1_desc |-> <<20004, 37096, 21046>>,
   electricity_type2_desc |-> <<22823, 24037, 19994>>,
   voltage_level_desc |-> <<49, 48, 107, 86>>,
   peak_price |-> peak, sharp_peak_price |-> Null, valley_price |-> valley,
   normal_price |-> 6825, deep_valley_price |-> Null]

StoreResults == {<<>>, <<SampleRow(11234, 2500)>>}

\* call_tool from its entry to its first suspension or its return.
call_tool(t, name, region_name, price_date) ==
  /\ running
  /\ task[t].pc = "idle"
  /\ LET tk == [task[t] EXCEPT !.name = name]
     IN task' =
          [task EXCEPT ![t] =
            IF name = "query_electricity_prices"
              THEN ensure_db_pool([tk EXCEPT !.region_name = region_name,
                                           !.price_date = price_date], pool)
            ELSE IF name = "list_available_regions"
              THEN Return(tk, list_available_regions)
            ELSE Return(tk, [kind |-> "unknown_tool", name |-> name])]
  /\ UNCHANGED <<pool, created, closed, running>>

\* aiomysql.create_pool returns: the assignment to self.pool, then the rest of
\* query_electricity_prices up to its next suspension.
CreatePoolReturns(t) ==
  /\ task[t].pc = "create_pool"
  /\ LET new == Cardinality(created) + 1
     IN /\ created' = created \cup {new}
        /\ pool' = new
  /\ task' = [task EXCEPT ![t] = AfterEnsurePool(task[t])]
  /\ UNCHANGED <<closed, running>>

CreatePoolRaises(t) ==
  /\ task[t].pc = "create_pool"
  /\ task' = [task EXCEPT ![t] = Raise(task[t], PoolError)]
  /\ UNCHANGED <<pool, created, closed, running>>

\* self.pool.acquire() and conn.cursor() return: cur.execute(query, params)
\* is sent to the store.
AcquireReturns(t) ==
  /\ task[t].pc = "acquire"
  /\ task' = [task EXCEPT ![t].pc = "execute", ![t].executes = @ + 1]
  /\ UNCHANGED <<pool, created, closed, running>>

AcquireRaises(t) ==
  /\ task[t].pc = "acquire"
  /\ task' = [task EXCEPT ![t] = Raise(task[t], AcquireError)]
  /\ UNCHANGED <<pool, created, closed, running>>

\* cur.execute and cur.fetchall return: query_electricity_prices returns
\* (result, None) and call_tool renders it.
ExecuteReturns(t, result) ==
  /\ task[t].pc = "execute"
  /\ task' = [task EXCEPT ![t] = Return(task[t], RenderResults(result))]
  /\ UNCHANGED <<pool, created, closed, running>>

ExecuteRaises(t) ==
  /\ task[t].pc = "execute"
  /\ task' = [task EXCEPT ![t] = Raise(task[t], QueryError)]
  /\ UNCHANGED <<pool, created, closed, running>>

\* run()'s finally block, once app.run has returned: only the pool self.pool
\* refers to is closed.
Shutdown ==
  /\ running
  /\ \A t \in Calls : task[t].pc \in {"idle", "done"}
  /\ running' = FALSE
  /\ closed' = IF pool # 0 THEN closed \cup {pool} ELSE closed
  /\ UNCHANGED <<pool, created, task>>

\* The state after __init__ (self.pool = None) with no call delivered.
ServerConstructed ==
  /\ pool = 0
  /\ created = {}
  /\ closed = {}
  /\ running = TRUE
  /\ task = [t \in Calls |-> NotCalled]

\* No normalisation or rendering under way.
RegionIdle == regionIn = None /\ regionOut = Pending
DateIdle == dateIn = None /\ dateOut = Pending
RenderIdle == rowsIn = <<>> /\ rendered = <<>>

Init == ServerConstructed /\ RegionIdle /\ DateIdle /\ RenderIdle

Next ==
  \/ \E t \in Calls, name \in ToolNames :
       \E args \in ArgsOf(name) :
         call_tool(t, name, args[1], args[2])
           /\ UNCHANGED <<regionVars, dateVars, renderVars>>
  \/ \E t \in Calls :
       CreatePoolReturns(t) /\ UNCHANGED <<regionVars, dateVars, renderVars>>
  \/ \E t \in Calls :
       CreatePoolRaises(t) /\ UNCHANGED <<regionVars, dateVars, renderVars>>
  \/ \E t \in Calls :
       AcquireReturns(t) /\ UNCHANGED <<regionVars, dateVars, renderVars>>
  \/ \E t \in Calls :
       AcquireRaises(t) /\ UNCHANGED <<regionVars, dateVars, renderVars>>
  \/ \E t \in Calls, result \in StoreResults :
       ExecuteReturns(t, result) /\ UNCHANGED <<regionVars, dateVars, renderVars>>
  \/ \E t \in Calls :
       ExecuteRaises(t) /\ UNCHANGED <<regionVars, dateVars, renderVars>>
  \/ Shutdown /\ UNCHANGED <<regionVars, dateVars, renderVars>>

\* The server: concurrent call_tool invocations on one instance.
Spec == Init /\ [][Next]_vars

(***************************************************************************)
(* normalize_region_name applied to inputs                                 *)
(***************************************************************************)

\* Longest region name built from RegionAlphabet.
MaxRegionLen == 2

RECURSIVE StringsOfLen(_, _)
StringsOfLen(alphabet, k) ==
  IF k = 0 THEN {<<>>}
  ELSE {Append(s, c) : s \in StringsOfLen(alphabet, k - 1), c \in alphabet}

StringsUpTo(alphabet, n) == UNION {StringsOfLen(alphabet, k) : k \in 0..n}

(* 北 京 河 南 省 and the space *)
RegionAlphabet == {21271, 20140, 27827, 21335, 30465, 32}

Padded(s) == <<32>> \o s \o <<12288, 10>>

RegionSamples ==
  { None,
    <<32, 32>>, <<9>>, <<12288>>,                       (* blank *)
    <<28145, 22323, 24066>>,                            (* 深圳市 *)
    <<21271, 20140, 19978, 28023>>,                     (* 北京上海 *)
    <<24800, 24030, 21644, 20869, 33945, 21476, 19996, 37096>>,
                                                        (* 惠州和内蒙古东部 *)
    <<38485, 35199, 27014, 26519>>,                     (* 陕西榆林 *)
    <<24191, 19996>>,                                   (* 广东 *)
    <<24191, 19996, 30465, 28145, 22323>>,              (* 广东省深圳 *)
    <<26597, 35810, 21271, 20140, 30340, 30005, 20215>>,(* 查询北京的电价 *)
    <<20869, 33945, 21476>>,                            (* 内蒙古 *)
    <<19981, 23384, 22312, 22320, 21306>>,              (* 不存在地区 *)
    <<24191, 24030>>,                                   (* 广州 *)
    <<28779, 26143>>,                                   (* 火星 *)
    <<120, 121, 122>>,                                  (* xyz *)
    <<33258, 27835, 21306>>,                            (* 自治区 *)
    <<23665, 19996, 23665, 35199>> }                    (* 山东山西 *)

RegionInputs ==
  RegionSamples
    \cup {Aliases[i] : i \in 1..Len(Aliases)}
    \cup {Canonicals[i] : i \in 1..Len(Canonicals)}
    \cup {Padded(Aliases[i]) : i \in 1..Len(Aliases)}
    \cup {Padded(Canonicals[i]) : i \in 1..Len(Canonicals)}
    \cup StringsUpTo(RegionAlphabet, MaxRegionLen)

InitRegion ==
  /\ ServerConstructed /\ DateIdle /\ RenderIdle
  /\ regionIn \in RegionInputs
  /\ regionOut = Pending

NormalizeRegion ==
  /\ regionOut = Pending
  /\ regionOut' = normalize_region_name(regionIn)
  /\ UNCHANGED <<regionIn, serverVars, dateVars, renderVars>>

\* The name a call resolved to is passed to the next call.
ResolveAgain ==
  /\ regionOut # Pending
  /\ regionOut[1] # None
  /\ regionIn' = regionOut[1]
  /\ regionOut' = Pending
  /\ UNCHANGED <<serverVars, dateVars, renderVars>>

NextRegion == NormalizeRegion \/ ResolveAgain

SpecRegion == InitRegion /\ [][NextRegion]_vars

(***************************************************************************)
(* normalize_date applied to inputs                                        *)
(***************************************************************************)

\* Most whitespace characters on either side of a date.
MaxPad == 1

(* 2024 and 1999 *)
Years == {<<50, 48, 50, 52>>, <<49, 57, 57, 57>>}

\* A month number written with one or two digits: 0..9 and 00..99.
MonthTexts == StringsOfLen(AsciiDigits, 1) \cup StringsOfLen(AsciiDigits, 2)

\* year and month in notation k of patterns: y年m月, y-m, y/m
Notation(k, year, month) ==
  year \o <<patterns[k][1]>> \o month \o patterns[k][2]

WellFormed == (1..Len(patterns)) \X Years \X MonthTexts

TextOf(w) == Notation(w[1], w[2], w[3])

Spaces(k) == [i \in 1..k |-> 32]

OddDates ==
  { None, <<>>, <<32>>,
    <<50, 48, 50, 52>>,                                 (* 2024 *)
    <<50, 48, 50, 52, 24180, 51>>,                      (* 2024年3 *)
    <<50, 48, 50, 52, 24180, 26376>>,                   (* 2024年月 *)
    <<50, 48, 50, 52, 26376, 51, 24180>>,               (* 2024月3年 *)
    <<50, 48, 50, 45, 51>>,                             (* 202-3 *)
    <<50, 52, 45, 51>>,                                 (* 24-3 *)
    <<50, 48, 50, 52, 46, 51>>,                         (* 2024.3 *)
    <<50, 48, 50, 52, 45>>,                             (* 2024- *)
    <<50, 48, 50, 52, 32, 45, 32, 51>>,                 (* 2024 - 3 *)
    <<120, 50, 48, 50, 52, 45, 51>>,                    (* x2024-3 *)
    <<51, 47, 50, 48, 50, 52>>,                         (* 3/2024 *)
    <<97, 98, 99>>,                                     (* abc *)
    <<50, 48, 50, 52, 45, 51, 45, 49, 53>>,             (* 2024-3-15 *)
    <<50, 48, 50, 52, 45, 49, 50, 51>>,                 (* 2024-123 *)
    <<50, 48, 50, 52, 24180, 49, 50, 51, 26376>>,       (* 2024年123月 *)
    <<65298, 65296, 65298, 65300, 45, 65299>> }         (* fullwidth 2024-3 *)

DateInputs ==
  OddDates
    \cup {Spaces(l) \o TextOf(w) \o Spaces(r) :
            w \in WellFormed, l \in 0..MaxPad, r \in 0..MaxPad}

InitDate ==
  /\ ServerConstructed /\ RegionIdle /\ RenderIdle
  /\ dateIn \in DateInputs
  /\ dateOut = Pending

NormalizeDate ==
  /\ dateOut = Pending
  /\ dateOut' = normalize_date(dateIn)
  /\ UNCHANGED <<dateIn, serverVars, regionVars, renderVars>>

\* The date a call resolved to is passed to the next call.
NormalizeAgain ==
  /\ dateOut # Pending
  /\ dateOut[2]
  /\ dateIn' = dateOut[1]
  /\ dateOut' = Pending
  /\ UNCHANGED <<serverVars, regionVars, renderVars>>

NextDate == NormalizeDate \/ NormalizeAgain

SpecDate == InitDate /\ [][NextDate]_vars

(***************************************************************************)
(* call_tool's rendering applied to result lists                           *)
(***************************************************************************)

\* Longest result list.
MaxRows == 2

\* NULL, 0.0000 and 0.6825
PriceValues == {Null, 0, 6825}

PriceRows ==
  { [SampleRow(peak, valley) EXCEPT !.sharp_peak_price = sharp,
                                    !.normal_price = normal,
                                    !.deep_valley_price = deep] :
      peak \in PriceValues, sharp \in PriceValues, valley \in PriceValues,
      normal \in PriceValues, deep \in PriceValues }

\* cur.fetchall() hands over one more row.
FetchRow(row) ==
  /\ rendered = <<>>
  /\ Len(rowsIn) < MaxRows
  /\ rowsIn' = Append(rowsIn, row)
  /\ UNCHANGED <<rendered, serverVars, regionVars, dateVars>>

Render ==
  /\ rendered = <<>>
  /\ rendered' = <<RenderResults(rowsIn)>>
  /\ UNCHANGED <<rowsIn, serverVars, regionVars, dateVars>>

NextRender == (\E row \in PriceRows : FetchRow(row)) \/ Render

SpecRender == Init /\ [][NextRender]_vars

(***************************************************************************)
(* Properties                                                              *)
(***************************************************************************)

IsQuery(tk) == tk.name = "query_electricity_prices"

\* A supplied argument that normalisation gives no key for.
RegionUnresolved(r) == ~Falsy(r) /\ NormalizedRegion[r][1] = None
DateUnresolved(d) == ~Falsy(d) /\ NormalizedDate[d][1] = None

\* The equality predicates of the query a call built, as <<column, value>>.
Predicates(tk) == {<<tk.query[i], tk.params[i]>> : i \in 1..Len(tk.query)}

NoFilterHint == [kind |-> "hint", lines |-> <<[hint |-> "no_filter"]>>]

\* C1: a query with neither region_name nor price_date (None or "") never
\* starts create_pool or a fetch, and is answered with the hint asking for a
\* region or a month, whatever the store does.
NoFilterNeverTouchesStore ==
  \A t \in Calls :
    (/\ IsQuery(task[t])
     /\ Falsy(task[t].region_name)
     /\ Falsy(task[t].price_date))
      => /\ task[t].pool_calls = 0
         /\ task[t].executes = 0
         /\ task[t].pc = "done" => task[t].reply = <<NoFilterHint>>

\* C2: a query whose supplied region or supplied date is unresolved issues no
\* fetch and is answered with the hint lines alone, the region hint before
\* the date hint.
UnresolvedGivesHintOnly ==
  \A t \in Calls :
    (/\ IsQuery(task[t])
     /\ \/ RegionUnresolved(task[t].region_name)
        \/ DateUnresolved(task[t].price_date))
      => /\ task[t].executes = 0
         /\ task[t].pc = "done" =>
              /\ Len(task[t].reply) = 1
              /\ task[t].reply[1].kind = "hint"
              /\ task[t].reply[1].lines =
                   (IF RegionUnresolved(task[t].region_name)
                      THEN <<IF NormalizedRegion[task[t].region_name][2] # <<>>
                               THEN [hint |-> "region_similar",
                                     region_name |-> task[t].region_name,
                                     similar |->
                                       NormalizedRegion[task[t].region_name][2]]
                               ELSE [hint |-> "region_not_found",
                                     region_name |-> task[t].region_name]>>
                      ELSE <<>>)
                   \o (IF DateUnresolved(task[t].price_date)
                         THEN <<[hint |-> "date_format"]>>
                         ELSE <<>>)

\* Table orders other than the literal's: reversed, and rotated by one.
Reversed(s) == [i \in 1..Len(s) |-> s[Len(s) + 1 - i]]
TableOrders == {Reversed(region_mapping), Tail(region_mapping) \o <<Head(region_mapping)>>}

\* C3: every alias and every full name of region_mapping resolves to the full
\* name of its entry with no suggestions, in any order of the table, and a
\* resolved name resolves to itself.
AliasAndCanonicalResolve ==
  regionOut # Pending =>
    /\ \A i \in 1..Len(region_mapping) :
         (regionIn = Aliases[i] \/ regionIn = Canonicals[i])
           => /\ regionOut = <<Canonicals[i], <<>>>>
              /\ \A m \in TableOrders : NormalizeRegionIn(m, regionIn) = regionOut
    /\ regionOut[1] # None
         => normalize_region_name(regionOut[1]) = <<regionOut[1], <<>>>>

\* 深圳 was resolved to 广东省深圳市.
AliasResolved ==
  /\ regionIn = <<28145, 22323>>
  /\ regionOut = <<<<24191, 19996, 30465, 28145, 22323, 24066>>, <<>>>>

\* The month a one- or two-digit text denotes.
MonthValue(text) ==
  CHOOSE n \in 0..99 : text = DigitsOf(n) \/ text = <<48 + (n \div 10), 48 + (n % 10)>>

\* The regular expressions' language, without the matching order: no pattern
\* has a match at the start of s.
MatchesNoNotation(s) ==
  ~ \E k \in 1..Len(patterns), n \in {1, 2} :
      /\ Len(s) >= 5 + n + Len(patterns[k][2])
      /\ \A i \in (1..4) \cup (6..(5 + n)) : s[i] \in Digits
      /\ s[5] = patterns[k][1]
      /\ SubSeq(s, 6 + n, 5 + n + Len(patterns[k][2])) = patterns[k][2]

\* C4: a 4-digit year and a one- or two-digit month in any of the notations
\* y年m月, y-m, y/m, with or without surrounding whitespace, normalises to
\* y年MM月 when the month is in 1..12, the same for every notation and padding
\* of the month, and to no key when it is not; a string matching no notation
\* gives no key.
DateNotationsAgree ==
  (dateOut # Pending /\ ~Falsy(dateIn)) =>
    /\ \A w \in WellFormed :
         strip(dateIn) = TextOf(w) =>
           LET m == MonthValue(w[3])
           IN IF 1 <= m /\ m <= 12
                THEN /\ dateOut =
                          <<w[2] \o <<24180, 48 + (m \div 10), 48 + (m % 10), 26376>>,
                            TRUE>>
                     /\ \A v \in WellFormed :
                          (v[2] = w[2] /\ MonthValue(v[3]) = m)
                            => normalize_date(TextOf(v)) = dateOut
                ELSE dateOut = <<None, FALSE>>
    /\ MatchesNoNotation(strip(dateIn)) => dateOut = <<None, FALSE>>

\* " 2024/3" was normalised to 2024年03月.
SlashDateNormalized ==
  /\ dateIn = <<32, 50, 48, 50, 52, 47, 51>>
  /\ dateOut = <<<<50, 48, 50, 52, 24180, 48, 51, 26376>>, TRUE>>

PriceOf(row, f) ==
  <<row.peak_price, row.sharp_peak_price, row.valley_price, row.normal_price,
    row.deep_valley_price>>[f]

\* C5: an empty result list is answered with the "no data" text; in a table,
\* each of the five price cells is the dash exactly when the field is NULL,
\* and any other value, zero included, is shown with four decimals.
DashIffNull ==
  rendered # <<>> =>
    IF rowsIn = <<>>
      THEN rendered[1].kind = "no_data"
      ELSE /\ rendered[1].kind = "table"
           /\ \A i \in 1..Len(rowsIn), f \in 1..5 :
                LET v == PriceOf(rowsIn[i], f)
                    cell == rendered[1].rows[i][4 + f]
                IN /\ (cell = <<45>>) <=> (v = Null)
                   /\ v # Null => cell = Format4f(v)

\* C6: every call_tool invocation ends with exactly one text reply and no
\* exception leaves it: an exception of the store is answered with the
\* "query failed" text carrying its cause, an unknown tool name with the
\* "unknown tool" text, and list_available_regions never touches the store.
AlwaysOneTextReply ==
  \A t \in Calls :
    /\ ~task[t].raised
    /\ task[t].pc # "done" => task[t].reply = <<>>
    /\ task[t].pc = "done" =>
         /\ Len(task[t].reply) = 1
         /\ task[t].exc # ""
              => task[t].reply[1] = [kind |-> "error", cause |-> task[t].exc]
         /\ task[t].name = "list_available_regions"
              => /\ task[t].reply[1].kind = "regions"
                 /\ task[t].pool_calls = 0
                 /\ task[t].executes = 0
         /\ task[t].name \notin {"query_electricity_prices", "list_available_regions"}
              => task[t].reply[1] = [kind |-> "unknown_tool", name |-> task[t].name]

\* One call was answered after create_pool raised, another after execute
\* raised.
StoreFailuresAnswered ==
  \E t \in Calls, u \in Calls :
    /\ task[t].pc = "done" /\ task[t].exc = PoolError
    /\ task[t].reply = <<[kind |-> "error", cause |-> PoolError]>>
    /\ task[u].pc = "done" /\ task[u].exc = QueryError
    /\ task[u].reply = <<[kind |-> "error", cause |-> QueryError]>>

\* A query whose arguments call for no hint: at least one is supplied, and
\* each supplied one is resolved.
NoHint(tk) ==
  /\ IsQuery(tk)
  /\ ~(Falsy(tk.region_name) /\ Falsy(tk.price_date))
  /\ ~RegionUnresolved(tk.region_name)
  /\ ~DateUnresolved(tk.price_date)

\* The predicates the resolved arguments call for.
ResolvedPredicates(tk) ==
  {<<"region_name", NormalizedRegion[tk.region_name][1]>> :
     x \in {r \in {tk.region_name} : NormalizedRegion[r][1] # None}}
  \cup {<<"price_date", NormalizedDate[tk.price_date][1]>> :
          x \in {d \in {tk.price_date} : NormalizedDate[d][1] # None}}

PredicatesAsResolved(tk) ==
  /\ Len(tk.params) = Len(tk.query)
  /\ Cardinality(Predicates(tk)) = Len(tk.query)
  /\ Predicates(tk) = ResolvedPredicates(tk)
  /\ (tk.region_name = Shenzhen /\ tk.price_date = December)
       => Predicates(tk) =
            { <<"region_name", <<24191, 19996, 30465, 28145, 22323, 24066>>>>,
              <<"price_date", <<50, 48, 50, 52, 24180, 49, 50, 26376>>>> }
  /\ Falsy(tk.region_name) => \A q \in Predicates(tk) : q[1] # "region_name"
  /\ Falsy(tk.price_date) => \A q \in Predicates(tk) : q[1] # "price_date"

\* C7 as stated: a query that produces no hint issues exactly one fetch,
\* whose predicates are exactly the resolved fields.
ExactlyOneFetch ==
  \A t \in Calls :
    (NoHint(task[t]) /\ task[t].pc = "done")
      => task[t].executes = 1 /\ PredicatesAsResolved(task[t])

\* C7, amended: a query that produces no hint issues at most one fetch and
\* never a second one; exactly one once create_pool and acquire have both
\* succeeded, none when either raised; the predicates of that fetch are
\* exactly the resolved fields, an absent field contributing none.
AtMostOneFetch ==
  \A t \in Calls :
    /\ task[t].executes <= 1
    /\ NoHint(task[t]) =>
         /\ task[t].executes = 1
              <=> (task[t].pc \in {"execute", "done"}
                   /\ task[t].exc \notin {PoolError, AcquireError})
         /\ task[t].executes = 1 => PredicatesAsResolved(task[t])

\* 深圳 with 2024-12 was fetched once and its rows rendered.
BothFiltersFetched ==
  \E t \in Calls :
    /\ task[t].pc = "done"
    /\ task[t].region_name = Shenzhen
    /\ task[t].price_date = December
    /\ task[t].executes = 1
    /\ task[t].reply[1].kind = "table"

\* C8: a supplied name that, trimmed, is neither a full name nor an alias
\* resolves to the full name of the first entry, in table order, whose alias
\* is a substring of it or contains it, however specific a later alias is;
\* with no such entry it is unresolved and carries the close matches.
FirstPartialMatchWins ==
  (regionOut # Pending /\ ~Falsy(regionIn)) =>
    LET name == strip(regionIn)
        exact == \E i \in 1..Len(region_mapping) :
                   name = Aliases[i] \/ name = Canonicals[i]
        related == {i \in 1..Len(region_mapping) :
                      Contains(Aliases[i], name) \/ Contains(name, Aliases[i])}
    IN ~exact =>
         IF related # {}
           THEN \E i \in related :
                  /\ \A j \in related : i <= j
                  /\ regionOut = <<Canonicals[i], <<>>>>
           ELSE /\ regionOut[1] = None
                /\ regionOut[2] = get_similar_regions(name)
                /\ Len(regionOut[2]) <= num_matches
                /\ \A k \in 1..Len(regionOut[2]) :
                     \E i \in 1..Len(region_mapping) :
                       regionOut[2][k] \in {Aliases[i], Canonicals[i]}

\* 惠州和内蒙古东部 was resolved to 广东省惠州市: 惠州 comes first in the table,
\* the longer 内蒙古东部 later.
EarlierAliasWon ==
  /\ regionIn = <<24800, 24030, 21644, 20869, 33945, 21476, 19996, 37096>>
  /\ regionOut = <<<<24191, 19996, 30465, 24800, 24030, 24066>>, <<>>>>

\* C9: the pool is created at most once and, once assigned to self.pool,
\* never replaced, so that every pool created is the one shutdown closes.
PoolCreatedAtMostOnce ==
  /\ Cardinality(created) <= 1
  /\ created \subseteq {pool}
  /\ ~running => created \subseteq closed

\* C10: a region_name that is empty once trimmed is resolved to no region,
\* and the query built for it has no region_name predicate.
BlankRegionNeverResolved ==
  \A t \in Calls :
    (/\ IsQuery(task[t])
     /\ task[t].pc \in {"acquire", "execute", "done"}
     /\ task[t].region_name # None
     /\ strip(task[t].region_name) = <<>>)
      => /\ NormalizedRegion[task[t].region_name][1] = None
         /\ \A q \in Predicates(task[t]) : q[1] # "region_name"

====
